---- MODULE Spec2Model ----
(***************************************************************************)
(* fwd: relay of server-sent events to HTTP targets (main.go).             *)
(*                                                                         *)
(* One Fwder per route owns one Subscription.  The Subscription goroutine  *)
(* (Subscription.Serve) reads lines of the source body and hands every     *)
(* completed SSEvent to the Fwder goroutine (Fwder.Serve) over the         *)
(* unbuffered channel Events.  suture supervisors restart a Subscription   *)
(* whose Serve returned, and terminate on ErrTerminateSupervisorTree.      *)
(*                                                                         *)
(* Byte strings are sequences of one-character strings, so that prefix     *)
(* tests and the slices line[4:], line[7:], line[6:] are computed.         *)
(***************************************************************************)
EXTENDS Naturals, Sequences, FiniteSets, TLC

VARIABLES
    routes,       \* config.Routes: the routes loaded by main
    alphabet,     \* the lines the sources send
    answers,      \* the responses the sources give to a GET
    quota,        \* lines the sources may still deliver
    restarts,     \* restarts the supervisors may still make
    top,          \* top-level supervisor / main: "serving" | "exited"
    fpc,          \* position of Fwder.Serve
    fstop,        \* caller of Fwder.Stop: "none" | "waiting" | "taken"
    fev,          \* the event Fwder.Serve received and passes to Forward
    fres,         \* outcome of the last f.client.Do in Forward
    spc,          \* position of Subscription.Serve
    serr,         \* what the last Subscription.Serve call returned
    sstop,        \* TRUE while Subscription.Stop is blocked on s.stop <- nil
    ncalls,       \* number of Subscription.Serve calls made so far
    got,          \* what each Serve call got from s.client.Do: a Response
    closes,       \* number of Close() calls on the body of each Serve call
    bodyToClose,  \* s.bodyToClose: 0 is nil, else the Serve call of the body
    draft,        \* ev of the running Serve call
    blen,         \* length of buf of the running Serve call
    mem,          \* backing array of buf of each Serve call
    out,          \* the value offered on s.Events while Serve blocks
    rec,          \* history: lines of the record being read
    completed,    \* history: events built at a blank line
    forwarded,    \* history: events passed to Fwder.Forward
    posted        \* history: POST attempts made by Fwder.Forward

vars == <<routes, alphabet, answers, quota, restarts, top, fpc, fstop, fev,
          fres, spc, serr, sstop, ncalls,
          got, closes, bodyToClose, draft, blen, mem, out, rec, completed,
          forwarded, posted>>

-----------------------------------------------------------------------------
(* Bounds *)

MaxLines == 3          \* lines the source delivers, single-route runs
MaxRestarts == 1       \* restarts of Subscription.Serve, single-route runs
MaxLinesMulti == 3     \* lines the sources deliver together, two-route runs
MaxRestartsMulti == 1  \* restarts of all Subscriptions, two-route runs
MaxLinesCore == 3      \* lines the source delivers, runs on failures
MaxRestartsCore == 1   \* restarts of Subscription.Serve, the same runs
MaxLinesFair == 2      \* lines the source delivers, runs with fairness
MaxRestartsFair == 1   \* restarts of Subscription.Serve, runs with fairness
MaxLinesJson == 3      \* lines the source delivers, runs on documents
MaxRestartsJson == 1   \* restarts of Subscription.Serve, the same runs
MaxLinesShort == 2     \* lines the source delivers, runs on short lines
MaxRestartsShort == 1  \* restarts of Subscription.Serve, the same runs
MaxLinesConnect == 1   \* lines the source delivers, runs on the responses
MaxRestartsConnect == 1 \* restarts of Subscription.Serve, the same runs

Routes == {"A", "B"}
MaxOf(S) == CHOOSE x \in S : \A y \in S : y <= x
Calls == 1..(1 + MaxOf({MaxRestarts, MaxRestartsMulti, MaxRestartsFair,
                     MaxRestartsConnect, MaxRestartsJson,
                     MaxRestartsShort, MaxRestartsCore}))

-----------------------------------------------------------------------------
(* Byte strings *)

S_id == <<"i", "d", ":">>
S_event == <<"e", "v", "e", "n", "t", ":">>
S_data == <<"d", "a", "t", "a", ":">>
S_ping == <<"p", "i", "n", "g">>
S_zero == <<"0">>
SP == <<" ">>

\* Lines of a source that puts one space after every prefix, and a line
\* with a prefix parseSend does not know.
Lines ==
    { <<>>,
      S_id \o SP \o <<"4">>,
      S_id \o SP \o S_zero,
      S_event \o SP \o S_ping,
      S_data \o SP \o <<"a">>,
      S_data \o SP \o <<"b", "c">>,
      <<"r", ":">> }

\* The lines of the two-route runs: a record end and an unknown prefix.
MultiLines == { <<>>, <<"r", ":">> }

\* The lines of the runs on failures and restarts: a record end, an id,
\* a data value and an unknown prefix.
CoreLines ==
    { <<>>, S_id \o SP \o <<"4">>, S_data \o SP \o <<"a">>, <<"r", ":">> }

\* The lines of the runs with fairness.
FairLines == { <<>>, S_id \o SP \o <<"4">>, <<"r", ":">> }

\* Pieces of JSON documents: braces, comma and three members, the last
\* one a number where Payload.Host is a string.
T_open == "{"
T_close == "}"
T_comma == ","
T_body == "\"body\":1"
T_ctype == "\"content-type\":\"j\""
T_host == "\"host\":2"

\* A document that decodes, one with a member of the wrong type and one
\* that is cut off.
D_good == <<T_open, T_ctype, T_comma, T_body, T_close>>
D_type == <<T_open, T_host, T_comma, T_ctype, T_comma, T_body, T_close>>
D_cut == <<T_open, T_body>>

\* The lines of a source that sends documents as event data.
JsonLines ==
    { <<>>,
      S_id \o SP \o <<"4">>,
      S_data \o SP \o D_good,
      S_data \o SP \o D_type,
      S_data \o SP \o D_cut }

\* Lines with a known prefix and no space, or nothing at all, behind it.
ShortLines == { S_id, S_data, S_data \o <<"x">>, S_id \o <<"7">> }

\* bytes.HasPrefix
HasPrefix(s, p) == Len(s) >= Len(p) /\ SubSeq(s, 1, Len(p)) = p

\* Go's s[k:] on a slice of length Len(s): out of range when k > Len(s).
InRange(s, k) == k <= Len(s)
SliceFrom(s, k) == SubSeq(s, k + 1, Len(s))

\* Response of the source to the GET of Subscription.Serve: no response
\* at all, or a status and a Content-Type header.
Responses ==
    {"neterr", "status500", "status204", "ctypeHtml", "ctypeCharset", "ok"}

\* The responses of a source that fails in one way of each kind.
PlainResponses == {"neterr", "status500", "ctypeHtml", "ok"}

StatusOf(resp) ==
    CASE resp = "status500" -> 500
      [] resp = "status204" -> 204
      [] OTHER -> 200

CTypeOf(resp) ==
    CASE resp \in {"status500", "ctypeHtml"} -> "text/html"
      [] resp = "ctypeCharset" -> "text/event-stream; charset=utf-8"
      [] OTHER -> "text/event-stream"

\* A Serve that streams whatever the Content-Type.
ServeCheck_anyType(resp) ==
    IF resp = "neterr" THEN "connect"
    ELSE IF StatusOf(resp) # 200 THEN "status"
    ELSE "none"

\* The checks of Subscription.Serve before the scan loop, in their order:
\* the error of client.Do, the status, the Content-Type.
ServeCheck(resp) ==
    IF resp = "neterr" THEN "connect"
    ELSE IF StatusOf(resp) # 200 THEN "status"
    ELSE IF CTypeOf(resp) # "text/event-stream" THEN "ctype"
    ELSE "none"

\* Outcome of f.client.Do(req) in Forward.
DoOutcomes == {"neterr", "2xx", "non2xx"}

NilData == [store |-> 0, len |-> 0]
ZeroEvent == [Id |-> <<>>, Name |-> <<>>, Data |-> NilData]
NoEvent ==
    [Id |-> <<>>, Name |-> <<>>, Data |-> NilData, rec |-> <<>>, seq |-> 0]

-----------------------------------------------------------------------------
(* bytes.Buffer of one Serve call: a length and a backing array that       *)
(* Reset keeps.  Records stay far below the 64 bytes the first Write       *)
(* allocates, so the array is never reallocated.                           *)

\* buf.Write(p): copy p into the array behind the first n bytes.
BufWrite(a, n, p) ==
    [arr |-> SubSeq(a, 1, n) \o p \o SubSeq(a, n + Len(p) + 1, Len(a)),
     len |-> n + Len(p)]

\* buf.Bytes(): a slice of the array itself, not a copy.
BufBytes(store, n) == [store |-> store, len |-> n]

\* A Reset that leaves the length as it is.
BufReset_keep(n) == n

\* buf.Reset(): length zero, array retained.
BufReset(n) == 0

\* The bytes a []byte value refers to, read now.
ReadData(m, d) == IF d.store = 0 THEN <<>> ELSE SubSeq(m[d.store], 1, d.len)

-----------------------------------------------------------------------------
(* Subscription.parseSend up to the channel send.  st is the state of the  *)
(* Serve call: [ev, blen, arr]; store names its buffer.  The result says   *)
(* what happened: "ok" (return nil), "send" (blocked on s.Events <- *ev),  *)
(* "error" (default case) or "panic" (slice bounds out of range).          *)

\* An unknown prefix taken for a line to skip.
Unknown_skip(st) ==
    [kind |-> "ok", blen |-> st.blen, arr |-> st.arr, ev |-> st.ev]

\* The default case of parseSend: any other non-empty line is an error.
Unknown(st) ==
    [kind |-> "error", blen |-> st.blen, arr |-> st.arr, ev |-> st.ev]

parseSend(line, st, store) ==
    IF HasPrefix(line, S_id) THEN
        IF InRange(line, 4)
        THEN [kind |-> "ok", blen |-> st.blen, arr |-> st.arr,
              ev |-> [st.ev EXCEPT !.Id = SliceFrom(line, 4)]]
        ELSE [kind |-> "panic", blen |-> st.blen, arr |-> st.arr, ev |-> st.ev]
    ELSE IF HasPrefix(line, S_event) THEN
        IF InRange(line, 7)
        THEN [kind |-> "ok", blen |-> st.blen, arr |-> st.arr,
              ev |-> [st.ev EXCEPT !.Name = SliceFrom(line, 7)]]
        ELSE [kind |-> "panic", blen |-> st.blen, arr |-> st.arr, ev |-> st.ev]
    ELSE IF HasPrefix(line, S_data) THEN
        IF InRange(line, 6)
        THEN LET w == BufWrite(st.arr, st.blen, SliceFrom(line, 6))
             IN  [kind |-> "ok", blen |-> w.len, arr |-> w.arr, ev |-> st.ev]
        ELSE [kind |-> "panic", blen |-> st.blen, arr |-> st.arr, ev |-> st.ev]
    ELSE IF Len(line) = 0 THEN
        [kind |-> "send", blen |-> BufReset(st.blen), arr |-> st.arr,
         ev |-> [st.ev EXCEPT !.Data = BufBytes(store, st.blen)]]
    ELSE Unknown(st)

\* After the send: `ev = &SSEvent{}` rebinds the parameter of parseSend
\* only; the SSEvent of Serve that the next call receives is untouched.
DraftAfterSend(ev) == ev

\* A drop rule without the test for the id "0".
Drop_noZero(ev) == ev.Name = S_ping \/ ev.Id = <<>>

\* The drop rule at the head of Fwder.Forward.
Drop(ev) == ev.Name = S_ping \/ ev.Id = <<>> \/ ev.Id = S_zero

\* A supervisor that calls Serve again whatever it returned.
Restarts_always(err) == TRUE

\* What the Subscription's supervisor does with the result of Serve: it
\* calls Serve again unless the result is ErrTerminateSupervisorTree.
Restarts(err) == err # "terminate"

-----------------------------------------------------------------------------
(* Initial state: main has built the supervisor and added one Fwder per    *)
(* route; no Serve has been called yet.                                    *)

InitRoutes(rs, q, k, ls, as) ==
    /\ routes = rs
    /\ alphabet = ls
    /\ answers = as
    /\ quota = q
    /\ restarts = k
    /\ top = "serving"
    /\ fpc = [r \in Routes |-> "idle"]
    /\ fstop = [r \in Routes |-> "none"]
    /\ fev = [r \in Routes |-> NoEvent]
    /\ fres = [r \in Routes |-> "none"]
    /\ spc = [r \in Routes |-> "none"]
    /\ serr = [r \in Routes |-> "none"]
    /\ sstop = [r \in Routes |-> FALSE]
    /\ ncalls = [r \in Routes |-> 0]
    /\ got = [r \in Routes |-> [n \in Calls |-> "none"]]
    /\ closes = [r \in Routes |-> [n \in Calls |-> 0]]
    /\ bodyToClose = [r \in Routes |-> 0]
    /\ draft = [r \in Routes |-> ZeroEvent]
    /\ blen = [r \in Routes |-> 0]
    /\ mem = [r \in Routes |-> [n \in Calls |-> <<>>]]
    /\ out = [r \in Routes |-> NoEvent]
    /\ rec = [r \in Routes |-> <<>>]
    /\ completed = [r \in Routes |-> <<>>]
    /\ forwarded = [r \in Routes |-> <<>>]
    /\ posted = [r \in Routes |-> <<>>]

Init == InitRoutes({"A"}, MaxLines, MaxRestarts, Lines, PlainResponses)

InitMulti ==
    InitRoutes({"A", "B"}, MaxLinesMulti, MaxRestartsMulti, MultiLines,
               PlainResponses)

InitCore ==
    InitRoutes({"A"}, MaxLinesCore, MaxRestartsCore, CoreLines, PlainResponses)

InitFair ==
    InitRoutes({"A"}, MaxLinesFair, MaxRestartsFair, FairLines, PlainResponses)

InitJson ==
    InitRoutes({"A"}, MaxLinesJson, MaxRestartsJson, JsonLines, PlainResponses)

InitShort ==
    InitRoutes({"A"}, MaxLinesShort, MaxRestartsShort, ShortLines \cup {<<>>},
               PlainResponses)

InitConnect ==
    InitRoutes({"A"}, MaxLinesConnect, MaxRestartsConnect, MultiLines,
               Responses)

-----------------------------------------------------------------------------
(* Actions.  Every goroutine stops when main has returned.                 *)

Live(r) == r \in routes /\ top = "serving"

\* A Subscription whose failure ends supervisor.Serve of main.
TopOnSubReturn_up(t, err) == IF err = "terminate" THEN t ELSE "exited"

\* A Serve of the Subscription returning err reaches only the supervisor
\* Fwder.Serve made for it (super.Add(sub); super.ServeBackground), never
\* the top-level one.
TopOnSubReturn(t, err) == t

\* supervisor.Serve calls Fwder.Serve, which builds the Subscription and its
\* supervisor and starts it in the background: first call of sub.Serve.
FwdStart(r) ==
    /\ Live(r)
    /\ fpc[r] = "idle"
    /\ fpc' = [fpc EXCEPT ![r] = "select"]
    /\ spc' = [spc EXCEPT ![r] = "start"]
    /\ ncalls' = [ncalls EXCEPT ![r] = 1]
    /\ UNCHANGED <<routes, alphabet, answers, restarts, quota, top, fstop,
                   fev, fres, serr, sstop, got, closes, bodyToClose, draft,
                   blen, mem, out, rec, completed, forwarded, posted>>

\* A Serve that does not record its body.
BodyAtLoop_unset(old, n) == old

\* s.bodyToClose = resp.Body: the body of Serve call n replaces whatever
\* an earlier call left there.
BodyAtLoop(old, n) == n

\* Subscription.Serve from the GET to the head of the scan loop.
SubConnect(r, resp) ==
    /\ Live(r)
    /\ spc[r] = "start"
    /\ got' = [got EXCEPT ![r][ncalls[r]] = resp]
    /\ IF ServeCheck(resp) = "none"
       THEN /\ spc' = [spc EXCEPT ![r] = "scan"]
            /\ bodyToClose' =
                   [bodyToClose EXCEPT ![r] = BodyAtLoop(@, ncalls[r])]
            /\ draft' = [draft EXCEPT ![r] = ZeroEvent]
            /\ blen' = [blen EXCEPT ![r] = 0]
            /\ rec' = [rec EXCEPT ![r] = <<>>]
            /\ UNCHANGED <<serr, top>>
       ELSE /\ spc' = [spc EXCEPT ![r] = "returned"]
            /\ serr' = [serr EXCEPT ![r] = ServeCheck(resp)]
            /\ top' = TopOnSubReturn(top, serr'[r])
            /\ UNCHANGED <<bodyToClose, draft, blen, rec>>
    /\ UNCHANGED <<routes, alphabet, answers, restarts, quota, fpc, fstop,
                   fev, fres, sstop, ncalls, closes, mem, out, completed,
                   forwarded, posted>>

\* scanner.Scan() returned a line: the select takes the stop signal when
\* Subscription.Stop is blocked on it, and calls parseSend otherwise.
SubLine(r, line) ==
    /\ Live(r)
    /\ spc[r] = "scan"
    /\ quota > 0
    /\ quota' = quota - 1
    /\ IF sstop[r]
       THEN /\ sstop' = [sstop EXCEPT ![r] = FALSE]
            /\ fpc' = [fpc EXCEPT ![r] = "close"]
            /\ spc' = [spc EXCEPT ![r] = "returned"]
            /\ serr' = [serr EXCEPT ![r] = "terminate"]
            /\ top' = TopOnSubReturn(top, "terminate")
            /\ UNCHANGED <<draft, blen, mem, out, rec, completed>>
       ELSE LET res == parseSend(line, [ev |-> draft[r], blen |-> blen[r],
                                        arr |-> mem[r][ncalls[r]]], ncalls[r])
                e == [Id |-> res.ev.Id, Name |-> res.ev.Name,
                      data |-> ReadData(mem'[r], res.ev.Data),
                      rec |-> rec[r], call |-> ncalls[r]]
            IN  /\ draft' = [draft EXCEPT ![r] = res.ev]
                /\ blen' = [blen EXCEPT ![r] = res.blen]
                /\ mem' = [mem EXCEPT ![r][ncalls[r]] = res.arr]
                /\ rec' = [rec EXCEPT ![r] =
                             IF res.kind = "send" THEN <<>>
                             ELSE Append(@, line)]
                /\ spc' = [spc EXCEPT ![r] =
                             CASE res.kind = "ok" -> "scan"
                               [] res.kind = "send" -> "send"
                               [] OTHER -> "returned"]
                /\ serr' = [serr EXCEPT ![r] =
                              CASE res.kind = "error" -> "parse"
                                [] res.kind = "panic" -> "panic"
                                [] OTHER -> @]
                /\ top' = IF res.kind \in {"error", "panic"}
                          THEN TopOnSubReturn(top, serr'[r]) ELSE top
                /\ completed' = [completed EXCEPT ![r] =
                                   IF res.kind = "send" THEN Append(@, e)
                                   ELSE @]
                /\ out' = [out EXCEPT ![r] =
                             IF res.kind = "send"
                             THEN [Id |-> res.ev.Id, Name |-> res.ev.Name,
                                   Data |-> res.ev.Data, rec |-> rec[r],
                                   seq |-> Len(completed'[r])]
                             ELSE @]
                /\ UNCHANGED <<sstop, fpc>>
    /\ UNCHANGED <<routes, alphabet, answers, restarts, fstop, fev, fres,
                   ncalls, got, closes, bodyToClose, forwarded, posted>>

\* scanner.Scan() returned false: end of the body (Serve returns nil) or a
\* read error (Serve returns the wrapped error).
SubScanEnd(r, how) ==
    /\ Live(r)
    /\ spc[r] = "scan"
    /\ spc' = [spc EXCEPT ![r] = "returned"]
    /\ serr' = [serr EXCEPT ![r] = how]
    /\ top' = TopOnSubReturn(top, how)
    /\ UNCHANGED <<routes, alphabet, answers, restarts, quota, fpc, fstop,
                   fev, fres, sstop, ncalls, got, closes, bodyToClose, draft,
                   blen, mem, out, rec, completed, forwarded, posted>>

\* The Subscription's supervisor calls Serve again after a return that is
\* not ErrTerminateSupervisorTree.
SubRestart(r) ==
    /\ Live(r)
    /\ spc[r] = "returned"
    /\ Restarts(serr[r])
    /\ restarts > 0
    /\ restarts' = restarts - 1
    /\ spc' = [spc EXCEPT ![r] = "start"]
    /\ ncalls' = [ncalls EXCEPT ![r] = @ + 1]
    /\ UNCHANGED <<routes, alphabet, answers, quota, top, fpc, fstop, fev,
                   fres, serr, sstop, got, closes, bodyToClose, draft, blen,
                   mem, out, rec, completed, forwarded, posted>>

\* A caller enters Fwder.Stop and blocks on f.stop <- nil.
FwderStop(r) ==
    /\ Live(r)
    /\ fstop[r] = "none"
    /\ fstop' = [fstop EXCEPT ![r] = "waiting"]
    /\ UNCHANGED <<routes, alphabet, answers, restarts, quota, top, fpc, fev,
                   fres, spc, serr, sstop, ncalls, got, closes, bodyToClose,
                   draft, blen, mem, out, rec, completed, forwarded, posted>>

\* A receive that leaves the Subscription blocked with the same event.
FwdRecv_again(r) ==
    /\ Live(r)
    /\ fpc[r] = "select"
    /\ spc[r] = "send"
    /\ fev' = [fev EXCEPT ![r] = out[r]]
    /\ fpc' = [fpc EXCEPT ![r] = "forward"]
    /\ forwarded' = [forwarded EXCEPT ![r] =
                       Append(@, [Id |-> out[r].Id, Name |-> out[r].Name,
                                  data |-> ReadData(mem[r], out[r].Data),
                                  rec |-> out[r].rec, seq |-> out[r].seq])]
    /\ UNCHANGED <<routes, alphabet, answers, quota, restarts, top, fstop,
                   fres, spc, serr, sstop, ncalls, got, closes, bodyToClose,
                   draft, blen, mem, out, rec, completed, posted>>

\* Fwder.Serve, case event := <-sub.Events: the handoff that releases the
\* Subscription blocked in parseSend, which then returns nil to the loop.
FwdRecv(r) ==
    /\ Live(r)
    /\ fpc[r] = "select"
    /\ spc[r] = "send"
    /\ fev' = [fev EXCEPT ![r] = out[r]]
    /\ fpc' = [fpc EXCEPT ![r] = "forward"]
    /\ spc' = [spc EXCEPT ![r] = "scan"]
    /\ draft' = [draft EXCEPT ![r] = DraftAfterSend(@)]
    /\ forwarded' = [forwarded EXCEPT ![r] =
                       Append(@, [Id |-> out[r].Id, Name |-> out[r].Name,
                                  data |-> ReadData(mem[r], out[r].Data),
                                  rec |-> out[r].rec, seq |-> out[r].seq])]
    /\ UNCHANGED <<routes, alphabet, answers, restarts, quota, top, fstop,
                   fres, serr, sstop, ncalls, got, closes, bodyToClose, blen,
                   mem, out, rec, completed, posted>>

-----------------------------------------------------------------------------
(* json.Unmarshal(ev.Data, &p) on the documents above.  Payload is reduced *)
(* to the three fields the documents can name.                             *)

ZeroPayload == [Body |-> <<>>, ContentType |-> <<>>, Host |-> <<>>]

\* encoding/json checks the whole input first: an object is members
\* separated by commas between braces.
ValidJson(d) ==
    /\ Len(d) >= 2
    /\ d[1] = T_open
    /\ d[Len(d)] = T_close
    /\ Len(d) = 2 \/ Len(d) % 2 = 1
    /\ \A i \in 2..(Len(d) - 1) :
           IF i % 2 = 0 THEN d[i] \in {T_body, T_ctype, T_host}
           ELSE d[i] = T_comma

\* json.Unmarshal: a syntax error leaves p untouched; a member whose value
\* does not fit its field is skipped, the other members are stored, and
\* the error returned is an UnmarshalTypeError.
Unmarshal(d) ==
    IF ~ValidJson(d) THEN [err |-> "syntax", p |-> ZeroPayload]
    ELSE [err |-> IF \E i \in 1..Len(d) : d[i] = T_host
                  THEN "type" ELSE "none",
          p |-> [Body |-> IF \E i \in 1..Len(d) : d[i] = T_body
                          THEN <<"1">> ELSE <<>>,
                 ContentType |-> IF \E i \in 1..Len(d) : d[i] = T_ctype
                                 THEN <<"j">> ELSE <<>>,
                 Host |-> <<>>]]

\* A Forward whose failed POST ends Fwder.Serve.
AfterDo_fatal(outcome) == IF outcome = "2xx" THEN "select" ELSE "failed"

\* Where Fwder.Serve is after client.Do: Forward logs a transport error
\* or a status above 299 and returns, to the select of the loop.
AfterDo(outcome) == "select"

\* A Forward that sends again after a transport error.
FwdForward_retry(r, outcome) ==
    /\ Live(r)
    /\ fpc[r] = "forward"
    /\ fpc' = [fpc EXCEPT ![r] = "select"]
    /\ IF Drop(fev[r])
       THEN UNCHANGED <<posted, fres>>
       ELSE LET e == [Id |-> fev[r].Id, Name |-> fev[r].Name,
                      data |-> ReadData(mem[r], fev[r].Data),
                      derr |-> Unmarshal(ReadData(mem[r], fev[r].Data)).err,
                      body |-> Unmarshal(ReadData(mem[r], fev[r].Data)).p.Body,
                      ctype |-> Unmarshal(ReadData(mem[r],
                                                   fev[r].Data)).p.ContentType,
                      rec |-> fev[r].rec, fseq |-> Len(forwarded[r])]
            IN  /\ posted' = [posted EXCEPT ![r] =
                                IF outcome = "neterr" THEN @ \o <<e, e>>
                                ELSE Append(@, e)]
                /\ fres' = [fres EXCEPT ![r] = outcome]
    /\ UNCHANGED <<routes, alphabet, answers, restarts, quota, top, fstop,
                   fev, spc, serr, sstop, ncalls, got, closes, bodyToClose,
                   draft, blen, mem, out, rec, completed, forwarded>>

\* Fwder.Forward(event): drop, or one POST built from the bytes ev.Data
\* refers to when Forward reads them; every outcome of client.Do returns.
FwdForward(r, outcome) ==
    /\ Live(r)
    /\ fpc[r] = "forward"
    /\ IF Drop(fev[r])
       THEN /\ fpc' = [fpc EXCEPT ![r] = "select"]
            /\ UNCHANGED <<posted, fres>>
       ELSE LET d == ReadData(mem[r], fev[r].Data)
                p == Unmarshal(d)
            IN  /\ fpc' = [fpc EXCEPT ![r] = AfterDo(outcome)]
                /\ posted' = [posted EXCEPT ![r] =
                                Append(@, [Id |-> fev[r].Id,
                                           Name |-> fev[r].Name,
                                           data |-> d,
                                           derr |-> p.err,
                                           body |-> p.p.Body,
                                           ctype |-> p.p.ContentType,
                                           rec |-> fev[r].rec,
                                           fseq |-> Len(forwarded[r])])]
                /\ fres' = [fres EXCEPT ![r] = outcome]
    /\ UNCHANGED <<routes, alphabet, answers, restarts, quota, top, fstop,
                   fev, spc, serr, sstop, ncalls, got, closes, bodyToClose,
                   draft, blen, mem, out, rec, completed, forwarded>>

\* Fwder.Serve, case <-f.stop: releases the caller of Fwder.Stop and enters
\* sub.Stop(), which blocks on s.stop <- nil.
FwdTakeStop(r) ==
    /\ Live(r)
    /\ fpc[r] = "select"
    /\ fstop[r] = "waiting"
    /\ fstop' = [fstop EXCEPT ![r] = "taken"]
    /\ fpc' = [fpc EXCEPT ![r] = "substop"]
    /\ sstop' = [sstop EXCEPT ![r] = TRUE]
    /\ UNCHANGED <<routes, alphabet, answers, restarts, quota, top, fev, fres,
                   spc, serr, ncalls, got, closes, bodyToClose, draft, blen,
                   mem, out, rec, completed, forwarded, posted>>

\* Subscription.Stop after the handoff: s.bodyToClose.Close(), then
\* Fwder.Serve returns ErrTerminateSupervisorTree.  Close on a nil
\* bodyToClose panics instead.
FwdClose(r) ==
    /\ Live(r)
    /\ fpc[r] = "close"
    /\ IF bodyToClose[r] = 0
       THEN /\ fpc' = [fpc EXCEPT ![r] = "panicked"]
            /\ UNCHANGED closes
       ELSE /\ fpc' = [fpc EXCEPT ![r] = "returned"]
            /\ closes' = [closes EXCEPT ![r][bodyToClose[r]] = @ + 1]
    /\ UNCHANGED <<routes, alphabet, answers, restarts, quota, top, fstop,
                   fev, fres, spc, serr, sstop, ncalls, got, bodyToClose,
                   draft, blen, mem, out, rec, completed, forwarded, posted>>

\* The top-level supervisor receives ErrTerminateSupervisorTree from a
\* Fwder: it terminates, supervisor.Serve returns and so does main.
TopTerminate ==
    /\ top = "serving"
    /\ \E r \in routes : fpc[r] = "returned"
    /\ top' = "exited"
    /\ UNCHANGED <<routes, alphabet, answers, restarts, quota, fpc, fstop,
                   fev, fres, spc, serr, sstop, ncalls, got, closes,
                   bodyToClose, draft, blen, mem, out, rec, completed,
                   forwarded, posted>>

Next ==
    \/ \E r \in Routes : FwdStart(r)
    \/ \E r \in Routes, resp \in answers : SubConnect(r, resp)
    \/ \E r \in Routes, line \in alphabet : SubLine(r, line)
    \/ \E r \in Routes, how \in {"eof", "read"} : SubScanEnd(r, how)
    \/ \E r \in Routes : SubRestart(r)
    \/ \E r \in Routes : FwderStop(r)
    \/ \E r \in Routes : FwdRecv(r)
    \/ \E r \in Routes, outcome \in DoOutcomes : FwdForward(r, outcome)
    \/ \E r \in Routes : FwdTakeStop(r)
    \/ \E r \in Routes : FwdClose(r)
    \/ TopTerminate

Spec == Init /\ [][Next]_vars

SpecMulti == InitMulti /\ [][Next]_vars

SpecCore == InitCore /\ [][Next]_vars

\* Scheduling: a goroutine that can run does run, a source that is read
\* delivers its next line, and a supervisor restarts what it has to.  No
\* fairness for the caller of Fwder.Stop and for the end of a body.
Fairness ==
    /\ WF_vars(TopTerminate)
    /\ \A r \in Routes :
           /\ WF_vars(FwdStart(r))
           /\ WF_vars(\E resp \in answers : SubConnect(r, resp))
           /\ WF_vars(\E line \in alphabet : SubLine(r, line))
           /\ WF_vars(SubRestart(r))
           /\ WF_vars(FwdRecv(r))
           /\ WF_vars(\E outcome \in DoOutcomes : FwdForward(r, outcome))
           /\ WF_vars(FwdTakeStop(r))
           /\ WF_vars(FwdClose(r))

SpecFair == InitFair /\ [][Next]_vars /\ Fairness

SpecConnect == InitConnect /\ [][Next]_vars

SpecJson == InitJson /\ [][Next]_vars

SpecShort == InitShort /\ [][Next]_vars

-----------------------------------------------------------------------------
(* Reading a record: what its lines say, independently of parseSend.       *)

\* Index of the last line of rc with prefix pfx, 0 when there is none.
LastWith(rc, pfx) ==
    LET S == {i \in 1..Len(rc) : HasPrefix(rc[i], pfx)}
    IN  IF S = {} THEN 0 ELSE CHOOSE i \in S : \A j \in S : j <= i

\* The value of a line: what follows the prefix and one space.
ValueOf(l, pfx) == SubSeq(l, Len(pfx) + 2, Len(l))

\* The value the last pfx line of rc sets, empty when rc has no such line.
FieldOf(rc, pfx) ==
    IF LastWith(rc, pfx) = 0 THEN <<>> ELSE ValueOf(rc[LastWith(rc, pfx)], pfx)

RECURSIVE DataOf(_)
\* The values of the data lines of rc, concatenated in order.
DataOf(rc) ==
    IF rc = <<>> THEN <<>>
    ELSE IF HasPrefix(Head(rc), S_data)
         THEN ValueOf(Head(rc), S_data) \o DataOf(Tail(rc))
         ELSE DataOf(Tail(rc))

DataLines(rc) == {i \in 1..Len(rc) : HasPrefix(rc[i], S_data \o SP)}

\* Every id:, event: and data: line of rc has one space behind the prefix.
WellFormed(rc) ==
    \A i \in 1..Len(rc) : \A pfx \in {S_id, S_event, S_data} :
        HasPrefix(rc[i], pfx) => HasPrefix(rc[i], pfx \o SP)

\* POST attempts made for the i-th event passed to Forward.
PostsFor(r, i) == {j \in 1..Len(posted[r]) : posted[r][j].fseq = i}

\* Forward has returned for the i-th event passed to it.
ForwardDone(r, i) == i < Len(forwarded[r]) \/ fpc[r] # "forward"

-----------------------------------------------------------------------------
(* Claims *)

\* C1: a record with no id: line never results in a POST, whatever
\* records preceded it on the connection.
C1_NoIdNoPost ==
    \A r \in Routes : \A j \in 1..Len(posted[r]) :
        LastWith(posted[r][j].rec, S_id) # 0

\* C2: the id and name of every emitted Event are the values set by the
\* id: and event: lines of its own record, empty when it has none.
C2_FieldsOfOwnRecord ==
    \A r \in Routes : \A i \in 1..Len(completed[r]) :
        LET e == completed[r][i]
        IN  WellFormed(e.rec) =>
                /\ e.Id = FieldOf(e.rec, S_id)
                /\ e.Name = FieldOf(e.rec, S_event)

\* C3: the data of the Event parseSend emits is the concatenation, in
\* order and without separator, of the values of the data: lines of its
\* record, and holds no byte of an earlier record.
C3_DataIsConcat ==
    \A r \in Routes :
        /\ \A i \in 1..Len(completed[r]) :
               WellFormed(completed[r][i].rec) =>
                   completed[r][i].data = DataOf(completed[r][i].rec)
        /\ (spc[r] = "send" /\ WellFormed(out[r].rec)) =>
               ReadData(mem[r], out[r].Data) = DataOf(out[r].rec)

\* C3 witness: a record of two data lines was emitted, its data the two
\* values one behind the other.
C3_Witness ==
    /\ Len(completed["A"]) = 1
    /\ Cardinality(DataLines(completed["A"][1].rec)) = 2
    /\ completed["A"][1].data = <<"a", "b", "c">>
    /\ spc["A"] = "send"
    /\ ReadData(mem["A"], out["A"].Data) = <<"a", "b", "c">>

\* C4: Forward makes no POST for an Event named "ping", with id "0" or
\* with an empty id, and exactly one POST attempt for every other Event.
C4_DropOrOnePost ==
    \A r \in Routes : \A i \in 1..Len(forwarded[r]) :
        LET e == forwarded[r][i]
            n == Cardinality(PostsFor(r, i))
        IN  /\ (e.Name = S_ping \/ e.Id = S_zero \/ e.Id = <<>>) => n = 0
            /\ ~(e.Name = S_ping \/ e.Id = S_zero \/ e.Id = <<>>) =>
                   n = IF ForwardDone(r, i) THEN 1 ELSE 0

\* C4 witness: Forward has returned for an Event without id, which it
\* dropped, and for an Event with id "4", for which it made one POST.
C4_Witness ==
    /\ Len(forwarded["A"]) = 2
    /\ fpc["A"] = "select"
    /\ forwarded["A"][1].Id = <<>>
    /\ PostsFor("A", 1) = {}
    /\ forwarded["A"][2].Id = <<"4">>
    /\ forwarded["A"][2].Name = <<>>
    /\ Cardinality(PostsFor("A", 2)) = 1

\* C5: the Events passed to Forward are, in order and without duplicate
\* or gap, a prefix of the records completed on the source, and the
\* Subscription is at most the one Event it is blocked on ahead.
C5_WireOrder ==
    \A r \in Routes :
        /\ Len(forwarded[r]) <= Len(completed[r])
        /\ Len(completed[r]) =
               Len(forwarded[r]) + IF spc[r] = "send" THEN 1 ELSE 0
        /\ \A i \in 1..Len(forwarded[r]) :
               /\ forwarded[r][i].seq = i
               /\ forwarded[r][i].Id = completed[r][i].Id
               /\ forwarded[r][i].Name = completed[r][i].Name
               /\ forwarded[r][i].data = completed[r][i].data
               /\ forwarded[r][i].rec = completed[r][i].rec

\* C5 witness: two different records, read on two connections, were
\* passed to Forward.
C5_Witness ==
    /\ Len(forwarded["A"]) = 2
    /\ forwarded["A"][1].rec # forwarded["A"][2].rec
    /\ ncalls["A"] = 2

-----------------------------------------------------------------------------
(* Routes, bodies and stops *)

\* Everything that belongs to route r.
RouteState(r) ==
    <<fpc[r], fstop[r], fev[r], fres[r], spc[r], serr[r], sstop[r], ncalls[r],
      got[r], closes[r], bodyToClose[r], draft[r], blen[r], mem[r], out[r],
      rec[r], completed[r], forwarded[r], posted[r]>>

\* Serve calls of route r that obtained a response: resp.Body is open.
Opened(r) == {n \in Calls : got[r][n] \in Responses \ {"neterr"}}

\* Serve calls of route r that reached the scan loop.
Streamed(r) == {n \in Calls : got[r][n] = "ok"}

\* Serve call n of route r has returned.
Returned(r, n) == n < ncalls[r] \/ (n = ncalls[r] /\ spc[r] = "returned")

\* The Serve of route r returns something else than the stop result.
Fails(r) ==
    spc[r] # "returned" /\ spc'[r] = "returned" /\ serr'[r] # "terminate"

\* C6: a failure of route a's Subscription and its restart leave every
\* other route and the top-level supervisor as they are, nothing is
\* stopped as long as no stop is requested, and an Event the other
\* route offers can be taken by its Fwder.
C6_FailureIsLocal ==
    /\ []((\A r \in Routes : fstop[r] = "none") =>
             /\ top = "serving"
             /\ \A b \in routes :
                    /\ fpc[b] \in {"idle", "select", "forward"}
                    /\ ~sstop[b]
                    /\ (spc[b] = "send" /\ fpc[b] = "select") =>
                           ENABLED FwdRecv(b))
    /\ [][\A a \in Routes :
            (Fails(a) \/ (spc[a] = "returned" /\ spc'[a] = "start")) =>
                /\ top' = top
                /\ \A b \in Routes \ {a} : RouteState(b)' = RouteState(b)]_vars

\* C6 witness: route A has failed on a line it cannot parse while route B,
\* which delivered an Event before, offers the next one to its Fwder.
C6_Witness ==
    /\ spc["A"] = "returned"
    /\ serr["A"] = "parse"
    /\ top = "serving"
    /\ Len(forwarded["B"]) = 1
    /\ spc["B"] = "send"
    /\ fpc["B"] = "select"

\* C7: when the Fwder of one route has stopped, every other route that
\* was serving keeps running.
C7_StopIsLocal ==
    \A r \in routes :
        fpc[r] = "returned" =>
            \A q \in routes \ {r} : fpc[q] \in {"select", "forward"} => Live(q)

\* C8: a Serve call that obtained a response and has returned has closed
\* the body, or the Stop that received its signal is about to close it.
C8_ExitReleasesBody ==
    \A r \in Routes : \A n \in Opened(r) :
        Returned(r, n) =>
            \/ closes[r][n] >= 1
            \/ (fpc[r] = "close" /\ bodyToClose[r] = n)

\* C9: a Stop called while Serve streams closes the body exactly once:
\* no body is closed twice, Stop is never left waiting on s.stop for a
\* Serve that itself waits in the send on s.Events for the caller of
\* Stop (neither goroutine can move from there and the body stays
\* open), and when Stop has returned the body of the stopped Serve is
\* closed once and the Subscription has stopped for good.
C9_StopReleasesOnce ==
    \A r \in Routes :
        /\ \A n \in Calls : closes[r][n] <= 1
        /\ ~(sstop[r] /\ spc[r] = "send")
        /\ fpc[r] = "returned" =>
               /\ spc[r] = "returned" /\ serr[r] = "terminate"
               /\ bodyToClose[r] = ncalls[r]
               /\ ncalls[r] \in Streamed(r)
               /\ closes[r][ncalls[r]] = 1

\* C10: when Stop has returned, the body of every Serve call that
\* streamed, also of one that exited on its own before the stop, has
\* been closed exactly once.
C10_EveryBodyOnce ==
    \A r \in Routes :
        fpc[r] = "returned" => \A n \in Streamed(r) : closes[r][n] = 1

\* C11: after Fwder.Serve has taken a stop request it eventually returns,
\* the connection of its Subscription closed, as long as the source goes
\* on sending and the supervisor restarting.
C11_StopTerminates ==
    \A r \in Routes :
        (fstop[r] = "taken") ~>
            \/ (fpc[r] = "returned" /\ closes[r][ncalls[r]] = 1)
            \/ quota = 0
            \/ restarts = 0

-----------------------------------------------------------------------------
(* Failures and restarts *)

\* A non-empty line that starts with none of id:, event:, data:.
Unrecognized(l) ==
    /\ Len(l) > 0
    /\ \A pfx \in {S_id, S_event, S_data} : ~HasPrefix(l, pfx)

\* The Serve of route r reads an unrecognized line in this step.
ReadsUnknown(r) ==
    /\ Len(rec'[r]) = Len(rec[r]) + 1
    /\ SubSeq(rec'[r], 1, Len(rec[r])) = rec[r]
    /\ Unrecognized(rec'[r][Len(rec'[r])])

\* C12: on a non-empty line with none of the three prefixes Serve returns
\* an error without emitting an Event, no Event ever holds such a line,
\* and the supervisor answers that return with one new call of Serve.
C12_UnknownLineFails ==
    /\ [](\A r \in Routes :
             /\ \A i \in 1..Len(completed[r]) :
                    \A j \in 1..Len(completed[r][i].rec) :
                        ~Unrecognized(completed[r][i].rec[j])
             /\ (spc[r] = "returned" /\ serr[r] = "parse"
                     /\ Live(r) /\ restarts > 0) => ENABLED SubRestart(r))
    /\ [][\A r \in Routes :
            /\ ReadsUnknown(r) =>
                   /\ spc'[r] = "returned" /\ serr'[r] = "parse"
                   /\ completed'[r] = completed[r]
                   /\ ncalls'[r] = ncalls[r]
            /\ (spc[r] = "returned" /\ serr[r] = "parse"
                    /\ <<spc[r], ncalls[r]>>' # <<spc[r], ncalls[r]>>) =>
                   /\ spc'[r] = "start"
                   /\ ncalls'[r] = ncalls[r] + 1
                   /\ got[r][ncalls'[r]] = "none"]_vars

\* C12 witness: the first Serve returned on an unknown line behind an id:
\* line, nothing was emitted, and Serve has been called a second time.
C12_Witness ==
    /\ ncalls["A"] = 2
    /\ spc["A"] = "start"
    /\ serr["A"] = "parse"
    /\ Len(rec["A"]) = 2
    /\ Unrecognized(rec["A"][2])
    /\ completed["A"] = <<>>

\* The i-th Event of route r is the first one of its connection.
FirstOfCall(r, i) ==
    i = 1 \/ completed[r][i - 1].call # completed[r][i].call

\* C13: a Serve that returned anything but the stop result can be called
\* again, and is the only thing that is; the new call makes a new
\* request and starts streaming with an empty draft and accumulator, so
\* that its first Event holds nothing of the record the failure
\* interrupted; after the stop result Serve is not called again.
C13_Lifecycle ==
    /\ [](\A r \in Routes :
             /\ (spc[r] = "returned" /\ serr[r] # "terminate"
                     /\ Live(r) /\ restarts > 0) => ENABLED SubRestart(r)
             /\ (spc[r] = "returned" /\ serr[r] = "terminate") =>
                    ~ENABLED SubRestart(r)
             /\ \A i \in 1..Len(completed[r]) :
                    (FirstOfCall(r, i) /\ WellFormed(completed[r][i].rec)) =>
                        /\ completed[r][i].Id = FieldOf(completed[r][i].rec, S_id)
                        /\ completed[r][i].Name =
                               FieldOf(completed[r][i].rec, S_event)
                        /\ completed[r][i].data = DataOf(completed[r][i].rec))
    /\ [][\A r \in Routes :
            /\ (ncalls[r] > 0 /\ ncalls'[r] # ncalls[r]) =>
                   /\ spc[r] = "returned" /\ serr[r] # "terminate"
                   /\ ncalls'[r] = ncalls[r] + 1
                   /\ spc'[r] = "start"
                   /\ got[r][ncalls'[r]] = "none"
            /\ (spc[r] = "start" /\ spc'[r] = "scan") =>
                   /\ draft'[r] = ZeroEvent
                   /\ blen'[r] = 0
                   /\ mem'[r][ncalls[r]] = <<>>
                   /\ rec'[r] = <<>>
            /\ (spc[r] = "returned" /\ serr[r] = "terminate") =>
                   /\ spc'[r] = spc[r]
                   /\ ncalls'[r] = ncalls[r]
                   /\ serr'[r] = serr[r]]_vars

\* C13 witness: the first Serve failed on an unknown line with a data
\* value in its accumulator; the second Serve streamed and emitted an
\* Event with empty data.
C13_Witness ==
    /\ ncalls["A"] = 2
    /\ serr["A"] = "parse"
    /\ mem["A"][1] = <<"a">>
    /\ Len(completed["A"]) = 1
    /\ completed["A"][1].call = 2
    /\ completed["A"][1].data = <<>>

-----------------------------------------------------------------------------
(* Delivery *)

\* C14: every Event taken by Fwder.Serve was completed once on the
\* source and is taken once, and leads to at most one POST attempt;
\* an Event is completed only by reading a new line, never by a restart
\* or by the outcome of a POST.
C14_AtMostOnce ==
    /\ [](\A r \in Routes :
             /\ \A i \in 1..Len(forwarded[r]) :
                    /\ Cardinality(PostsFor(r, i)) <= 1
                    /\ \A j \in 1..Len(forwarded[r]) :
                           forwarded[r][i].seq = forwarded[r][j].seq => i = j
             /\ \A i, j \in 1..Len(posted[r]) :
                    i < j => posted[r][i].fseq < posted[r][j].fseq)
    /\ [][\A r \in Routes :
            /\ completed'[r] # completed[r] =>
                   /\ quota' = quota - 1
                   /\ Len(completed'[r]) = Len(completed[r]) + 1
            /\ forwarded'[r] # forwarded[r] =>
                   /\ spc[r] = "send"
                   /\ spc'[r] = "scan"
                   /\ Len(forwarded'[r]) = Len(forwarded[r]) + 1
            /\ posted'[r] # posted[r] =>
                   /\ fpc[r] = "forward"
                   /\ fpc'[r] = "select"
                   /\ Len(posted'[r]) = Len(posted[r]) + 1]_vars

\* C14 witness: the POST of the one Event taken failed in the transport,
\* the Subscription then failed and was restarted and streams again;
\* there is still one Event and one POST attempt.
C14_Witness ==
    /\ Len(posted["A"]) = 1
    /\ fres["A"] = "neterr"
    /\ ncalls["A"] = 2
    /\ spc["A"] = "scan"
    /\ fpc["A"] = "select"
    /\ Len(completed["A"]) = 1
    /\ Len(forwarded["A"]) = 1

\* C15: a POST that fails in the transport or is answered with a status
\* above 299 returns Fwder.Serve to its select and changes nothing of the
\* Subscription, of the stop requests or of the supervisors; an Event the
\* Subscription offers there can be taken, and a taken one is passed to
\* Forward.
C15_SendFailureNotFatal ==
    /\ [](\A r \in Routes :
             /\ fpc[r] \in {"idle", "select", "forward", "substop", "close",
                            "returned"}
             /\ (fpc[r] = "select" /\ spc[r] = "send" /\ Live(r)) =>
                    ENABLED FwdRecv(r)
             /\ (fpc[r] = "forward" /\ Live(r)) =>
                    \A o \in DoOutcomes : ENABLED FwdForward(r, o))
    /\ [][\A r \in Routes :
            (posted'[r] # posted[r] /\ fres'[r] \in {"neterr", "non2xx"}) =>
                /\ fpc'[r] = "select"
                /\ <<spc[r], serr[r], sstop[r], ncalls[r], fstop[r], top>>'
                       = <<spc[r], serr[r], sstop[r], ncalls[r], fstop[r], top>>
                /\ closes'[r] = closes[r]
                /\ completed'[r] = completed[r]]_vars

\* C15 witness: the POST of the first Event was answered with a status
\* above 299, and the second Event is in Forward.
C15_Witness ==
    /\ Len(posted["A"]) = 1
    /\ posted["A"][1].fseq = 1
    /\ fres["A"] = "non2xx"
    /\ Len(forwarded["A"]) = 2
    /\ fpc["A"] = "forward"
    /\ ncalls["A"] = 1

-----------------------------------------------------------------------------
(* Connecting *)

\* The response the Serve call n of route r obtained allows streaming.
Accepted(r, n) ==
    /\ got[r][n] \in Responses \ {"neterr"}
    /\ StatusOf(got[r][n]) = 200
    /\ CTypeOf(got[r][n]) = "text/event-stream"

\* C16: Serve is in its scan loop, reads a line or has emitted an Event
\* only on a response with status 200 and Content-Type text/event-stream;
\* on every other response it returns an error, the one for the status
\* when both are wrong, having read no line and emitted nothing.
C16_StreamOnlyOnAccepted ==
    /\ [](\A r \in Routes :
             /\ spc[r] \in {"scan", "send"} => Accepted(r, ncalls[r])
             /\ \A i \in 1..Len(completed[r]) :
                    Accepted(r, completed[r][i].call))
    /\ [][\A r \in Routes :
            /\ (spc[r] = "start" /\ spc'[r] # "start"
                    /\ ~Accepted(r, ncalls[r])') =>
                   /\ spc'[r] = "returned"
                   /\ serr'[r] =
                          IF got'[r][ncalls[r]] = "neterr" THEN "connect"
                          ELSE IF StatusOf(got'[r][ncalls[r]]) # 200
                               THEN "status" ELSE "ctype"
                   /\ quota' = quota
                   /\ <<rec[r], draft[r], blen[r], mem[r], completed[r]>>'
                          = <<rec[r], draft[r], blen[r], mem[r], completed[r]>>
            /\ (rec'[r] # rec[r] /\ rec'[r] # <<>>) =>
                   Accepted(r, ncalls[r])]_vars

\* C16 witness: a response with status 500 and Content-Type text/html
\* was refused for its status, and the response to the next call, with
\* status 200 and a charset behind the type, for its Content-Type.
C16_Witness ==
    /\ ncalls["A"] = 2
    /\ got["A"][1] = "status500"
    /\ got["A"][2] = "ctypeCharset"
    /\ spc["A"] = "returned"
    /\ serr["A"] = "ctype"
    /\ completed["A"] = <<>>
    /\ rec["A"] = <<>>

-----------------------------------------------------------------------------
(* Payloads *)

\* C17: for an Event whose data does not decode as Payload, Forward makes
\* one POST, with an empty body and empty header values.
C17_DecodeFailureZeroPayload ==
    \A r \in Routes :
        /\ \A j \in 1..Len(posted[r]) :
               posted[r][j].derr # "none" =>
                   posted[r][j].body = <<>> /\ posted[r][j].ctype = <<>>
        /\ \A i \in 1..Len(forwarded[r]) :
               (~Drop(forwarded[r][i]) /\ ForwardDone(r, i)
                    /\ Unmarshal(forwarded[r][i].data).err # "none") =>
                   Cardinality(PostsFor(r, i)) = 1

\* C18: while Forward works on an Event, the bytes its data refers to
\* are the bytes the Event had when Fwder.Serve received it, whatever
\* the Subscription reads meanwhile.
C18_HandedDataStable ==
    \A r \in Routes :
        fpc[r] = "forward" =>
            ReadData(mem[r], fev[r].Data)
                = forwarded[r][Len(forwarded[r])].data

-----------------------------------------------------------------------------
(* Lines without the space *)

\* What follows the prefix on line l, without the one space that may
\* separate them.
ValueAfter(l, pfx) ==
    LET v == SubSeq(l, Len(pfx) + 1, Len(l))
    IN  IF v # <<>> /\ v[1] = " " THEN Tail(v) ELSE v

RECURSIVE DataAfter(_)
\* The values of the data: lines of rc, concatenated in order.
DataAfter(rc) ==
    IF rc = <<>> THEN <<>>
    ELSE IF HasPrefix(Head(rc), S_data)
         THEN ValueAfter(Head(rc), S_data) \o DataAfter(Tail(rc))
         ELSE DataAfter(Tail(rc))

\* C19: parseSend never fails on a slice out of range, and the first
\* Event of a connection holds every character that follows the id: and
\* data: prefixes of its record, with or without a space behind them.
C19_ParseSendTotal ==
    \A r \in Routes :
        /\ serr[r] # "panic"
        /\ \A i \in 1..Len(completed[r]) :
               FirstOfCall(r, i) =>
                   /\ completed[r][i].data = DataAfter(completed[r][i].rec)
                   /\ completed[r][i].Id =
                          IF LastWith(completed[r][i].rec, S_id) = 0 THEN <<>>
                          ELSE ValueAfter(
                                   completed[r][i].rec[
                                       LastWith(completed[r][i].rec, S_id)],
                                   S_id)

-----------------------------------------------------------------------------
(* The handle Stop closes *)

\* C20: when Subscription.Stop is past the handoff on s.stop, bodyToClose
\* is the body of the Serve call that took the signal, a call that
\* reached its scan loop and has returned the stop result; Stop never
\* calls Close on an unset bodyToClose.
C20_StopClosesOwnBody ==
    \A r \in Routes :
        /\ fpc[r] # "panicked"
        /\ fpc[r] = "close" =>
               /\ bodyToClose[r] # 0
               /\ bodyToClose[r] = ncalls[r]
               /\ got[r][ncalls[r]] = "ok"
               /\ spc[r] = "returned" /\ serr[r] = "terminate"
               /\ closes[r][ncalls[r]] = 0

\* C20 witness: the first Serve streamed and failed, the second one took
\* the stop signal, and Stop is about to close the second body.
C20_Witness ==
    /\ fpc["A"] = "close"
    /\ ncalls["A"] = 2
    /\ got["A"][1] = "ok"
    /\ serr["A"] = "terminate"
    /\ bodyToClose["A"] = 2

====
